---- MODULE Spec2Model ----
(***************************************************************************)
(* The POST /chat handler of demo/server.ts: request validation, the       *)
(* getSession-then-createSession session resolution, and the streamText    *)
(* callback that drives globalRunner.runAsync and forwards its events to    *)
(* the response stream.                                                     *)
(*                                                                          *)
(* Every `await` of the handler is a point where another request, or the   *)
(* remote caller's abort, may interleave; the code between two awaits is    *)
(* one action.                                                              *)
(***************************************************************************)
EXTENDS Integers, Sequences, FiniteSets, TLC

\* ------------------------------------------------------------------ bounds

\* The requests the process receives.
Reqs == {"r1", "r2"}

\* The number of events the model collaborator yields, all turns together.
MaxEvents == 3

\* ------------------------------------------------------------- JS values

\* A field that is absent from the JSON body or from an event (undefined).
Missing == "<undefined>"

\* JavaScript truthiness of a string-or-undefined value.
Truthy(v) == v # Missing /\ v # ""

\* `a || b` on string-or-undefined values.
OrElse(a, b) == IF Truthy(a) THEN a ELSE b

\* A destructuring default `{ x = d }`: only undefined takes the default.
Default(v, d) == IF v = Missing THEN d ELSE v

\* --------------------------------------------------------------- inputs

appName == "finance_agent_app"

Messages == {Missing, "", "hi"}
UserIds == {Missing, "default-user", "alice"}
SessionIds == {Missing, "default-session"}

Triple(u, s) == <<appName, u, s>>

Triples == {Triple(Default(u, "default-user"), Default(s, "default-session")) :
              u \in UserIds, s \in SessionIds}

Ev(code, msg, text, final) ==
  [errorCode |-> code, errorMessage |-> msg, text |-> text, final |-> final]

\* What runAsync may yield: text, a tool call or tool result (no text in
\* parts[0]), a final marker without and with text, an error event, and an
\* error event that also carries text and has no errorMessage.
EventKinds ==
  { Ev(Missing, Missing, "a", FALSE),
    Ev(Missing, Missing, Missing, FALSE),
    Ev(Missing, Missing, Missing, TRUE),
    Ev(Missing, Missing, "b", TRUE),
    Ev("429", "quota", Missing, FALSE),
    Ev("500", Missing, "c", FALSE) }

\* err.message of what the model collaborator throws.
ThrowMessages == {"quota"}

\* ---------------------------------------------------------------- state

VARIABLES
  mockMode,     \* const mockMode
  sessions,     \* globalRunner.sessionService: triple -> session or NoSession
  turnLog,      \* ghost: every turn ever started on a triple, in order
  creates,      \* ghost: successful createSession calls per triple
  overwrites,   \* ghost: createSession calls that replaced an existing session
  pc,           \* where each request's handler is
  req,          \* the destructured body of each request
  how,          \* how the request got its session
  calls,        \* ghost: the collaborators the request has called
  response,     \* HTTP status answered (0: none yet)
  consumed,     \* the events the for-await loop has taken from runAsync
  written,      \* the chunks stream.write was called with, in order
  abortAt,      \* -1, or Len(written) when the remote caller aborted
  endKind,      \* how the streamText callback ended
  escaped       \* an exception left the streamText callback

\* The browser client (public/app.js).
VARIABLES
  controller,     \* let controller: 0 for null, else the sendMessage call whose
                  \* AbortController it holds
  sendDisabled,   \* sendBtn.disabled
  cancelDisabled, \* cancelBtn.disabled
  status,         \* statusEl.textContent
  output,         \* outputEl.textContent, as the texts appended to it
  call            \* each sendMessage call: where it is suspended, and what
                  \* happened to it

clientVars ==
  <<controller, sendDisabled, cancelDisabled, status, output, call>>

serverVars ==
  <<mockMode, sessions, turnLog, creates, overwrites, pc, req, how, calls,
    response, consumed, written, abortAt, endKind, escaped>>

vars == <<serverVars, clientVars>>

storeVars == <<sessions, turnLog, creates, overwrites>>
streamVars == <<consumed, written, abortAt, endKind, escaped>>

NoSession == [exists |-> FALSE]
NoReq == [message |-> Missing, userId |-> Missing, sessionId |-> Missing]

\* createSession({appName, userId, sessionId, state: {}})
EmptySession == [exists |-> TRUE, state |-> {}, turns |-> <<>>]

\* Mutant: the handler ignores the ids of the request.
TripleOfDefaults(r) == Triple("default-user", "default-session")

TripleOf(r) == Triple(req[r].userId, req[r].sessionId)

\* The sendMessage calls of the page's life.
MaxCalls == 2

\* The chunks the response bodies deliver at most, all calls together.
MaxChunks == 2

Calls == 1..MaxCalls

NoCall == [at |-> "idle", ok |-> FALSE, got |-> 0, cancelled |-> FALSE,
           outcome |-> "none"]

\* The page after app.js has run: controller is null and nothing was
\* appended. Send can be clicked; Cancel is taken as disabled, as the finally
\* block leaves it (a Cancel click while controller is null changes nothing).
ClientInit ==
  /\ controller = 0
  /\ sendDisabled = FALSE
  /\ cancelDisabled = TRUE
  /\ status = ""
  /\ output = <<>>
  /\ call = [i \in Calls |-> NoCall]

Init ==
  /\ mockMode \in BOOLEAN
  /\ sessions = [t \in Triples |-> NoSession]
  /\ turnLog = [t \in Triples |-> <<>>]
  /\ creates = [t \in Triples |-> 0]
  /\ overwrites = 0
  /\ pc = [r \in Reqs |-> "idle"]
  /\ req = [r \in Reqs |-> NoReq]
  /\ how = [r \in Reqs |-> "none"]
  /\ calls = [r \in Reqs |-> {}]
  /\ response = [r \in Reqs |-> 0]
  /\ consumed = [r \in Reqs |-> <<>>]
  /\ written = [r \in Reqs |-> <<>>]
  /\ abortAt = [r \in Reqs |-> -1]
  /\ endKind = [r \in Reqs |-> "none"]
  /\ escaped = [r \in Reqs |-> FALSE]
  /\ ClientInit

\* ------------------------------------------------------------ the stream

\* Mutant: the second and third canned chunks are written in the other order.
MockChunksSwapped ==
  << "Hello! This is a mock agent response.\n",
     "Try: 'Analyze transactions: ...' or 'Set a budget of $100 for dining.'\n",
     "I can simulate analysis, budgeting, and reports for testing.\n" >>

MockChunks ==
  << "Hello! This is a mock agent response.\n",
     "I can simulate analysis, budgeting, and reports for testing.\n",
     "Try: 'Analyze transactions: ...' or 'Set a budget of $100 for dining.'\n" >>

\* Mutant: the message is interpolated without its `|| 'Unknown ADK error'`.
AdkErrorChunkNoFallback(e) ==
  "\n[ADK ERROR " \o e.errorCode \o "] "
     \o (IF e.errorMessage = Missing THEN "undefined" ELSE e.errorMessage)
     \o "\n"

\* `\n[ADK ERROR ${errorCode}] ${errorMessage || 'Unknown ADK error'}\n`
AdkErrorChunk(e) ==
  "\n[ADK ERROR " \o e.errorCode \o "] "
     \o OrElse(e.errorMessage, "Unknown ADK error") \o "\n"

\* `\n[Error: ${err.message}]`
TransportErrorChunk(msg) == "\n[Error: " \o msg \o "]"

\* The chunks that reached the remote caller: nothing written after the abort
\* is delivered.
Delivered(r) ==
  IF abortAt[r] >= 0 THEN SubSeq(written[r], 1, abortAt[r]) ELSE written[r]

\* return streamText(c, async (stream) => { ... }) up to the callback's first
\* await: the first mock write, or the first pull on runAsync (which records
\* the user's turn in the session named by the request). `store` is the
\* session store and `called` the collaborators called earlier in the step.
OpenStream(r, t, store, called) ==
  /\ response' = [response EXCEPT ![r] = 200]
  /\ UNCHANGED <<consumed, abortAt, endKind, escaped>>
  /\ IF mockMode
       THEN /\ written' = [written EXCEPT ![r] = <<MockChunks[1]>>]
            /\ pc' = [pc EXCEPT ![r] = "mock"]
            /\ calls' = [calls EXCEPT ![r] = @ \cup called \cup {"streamText"}]
            /\ sessions' = store
            /\ UNCHANGED turnLog
       ELSE /\ written' = written
            /\ pc' = [pc EXCEPT ![r] = "loop"]
            /\ calls' = [calls EXCEPT ![r] =
                           @ \cup called \cup {"streamText", "runAsync"}]
            /\ sessions' = [store EXCEPT ![t].turns = Append(@, r)]
            /\ turnLog' = [turnLog EXCEPT ![t] = Append(@, r)]

\* Mutant: only an absent message is rejected, an empty one passes.
MessageRejectedOnlyUndefined(m) == m = Missing

\* if (!message)
MessageRejected(m) == ~Truthy(m)

\* The handler from the request's arrival to its first await on the session
\* service: destructuring with defaults, the message check, and in mock mode
\* the mock session and the opening of the stream.
Receive(r) ==
  /\ pc[r] = "idle"
  /\ \E m \in Messages, u \in UserIds, s \in SessionIds :
       LET body == [message |-> m,
                    userId |-> Default(u, "default-user"),
                    sessionId |-> Default(s, "default-session")]
           t == Triple(body.userId, body.sessionId)
       IN /\ req' = [req EXCEPT ![r] = body]
          /\ IF MessageRejected(m)
               THEN /\ response' = [response EXCEPT ![r] = 400]
                    /\ pc' = [pc EXCEPT ![r] = "done"]
                    /\ UNCHANGED <<how, calls, storeVars, streamVars>>
               ELSE IF mockMode
                 THEN /\ how' = [how EXCEPT ![r] = "mock"]
                      /\ OpenStream(r, t, sessions, {})
                      /\ UNCHANGED <<creates, overwrites>>
                 ELSE /\ pc' = [pc EXCEPT ![r] = "getSession"]
                      /\ UNCHANGED <<how, calls, response, storeVars, streamVars>>
  /\ UNCHANGED <<clientVars, mockMode>>

\* Mutant: the session is created on every request.
SessionFoundNever(t) == FALSE

\* Whether getSession yields a session. For an unknown triple it rejects, or
\* resolves to undefined and `session!.id` throws: the catch block runs either
\* way.
SessionFound(t) == sessions[t].exists

\* await globalRunner.sessionService.getSession(...), then the stream if the
\* session was found, else the catch block up to its await on createSession.
GetSession(r) ==
  /\ pc[r] = "getSession"
  /\ LET t == TripleOf(r) IN
       IF SessionFound(t)
         THEN /\ how' = [how EXCEPT ![r] = "existing"]
              /\ OpenStream(r, t, sessions, {"getSession"})
              /\ UNCHANGED <<creates, overwrites>>
         ELSE /\ pc' = [pc EXCEPT ![r] = "createSession"]
              /\ calls' = [calls EXCEPT ![r] = @ \cup {"getSession"}]
              /\ UNCHANGED <<how, response, storeVars, streamVars>>
  /\ UNCHANGED <<clientVars, mockMode, req>>

\* await globalRunner.sessionService.createSession({..., state: {}}) resolves:
\* the store now holds a fresh session for the triple, replacing whatever it
\* held, and the stream opens.
CreateSession(r) ==
  /\ pc[r] = "createSession"
  /\ LET t == TripleOf(r) IN
       /\ how' = [how EXCEPT ![r] = "created"]
       /\ creates' = [creates EXCEPT ![t] = @ + 1]
       /\ overwrites' = IF sessions[t].exists THEN overwrites + 1 ELSE overwrites
       /\ OpenStream(r, t, [sessions EXCEPT ![t] = EmptySession],
                     {"createSession"})
  /\ UNCHANGED <<clientVars, mockMode, req>>

\* Mutant: catch (createError) logs and does not return.
CreateSessionFailsFallsThrough(r) ==
  /\ pc[r] = "createSession"
  /\ OpenStream(r, Triple(req[r].userId, req[r].sessionId), sessions,
                {"createSession"})
  /\ UNCHANGED <<clientVars, mockMode, req, how, creates, overwrites>>

\* createSession rejects: catch (createError) answers 500.
CreateSessionFails(r) ==
  /\ pc[r] = "createSession"
  /\ response' = [response EXCEPT ![r] = 500]
  /\ pc' = [pc EXCEPT ![r] = "done"]
  /\ calls' = [calls EXCEPT ![r] = @ \cup {"createSession"}]
  /\ UNCHANGED <<clientVars, mockMode, req, how, storeVars, streamVars>>

\* ------------------------------------------------------- the event loop

RECURSIVE EventsTaken(_)
\* The events taken from runAsync by the requests of rs, all together.
EventsTaken(rs) ==
  IF rs = {} THEN 0
  ELSE LET r == CHOOSE x \in rs : TRUE
       IN Len(consumed[r]) + EventsTaken(rs \ {r})

\* The model collaborator has an event left to yield.
EventsLeft == EventsTaken(Reqs) < MaxEvents

\* if ((adkEvent as any).errorCode)
IsErrorEvent(e) == Truthy(e.errorCode)

\* if (adkEvent.content?.parts?.[0]?.text)
HasText(e) == Truthy(e.text)

\* Mutant: an error event's text is written after its marker.
EventChunksMarkerAndText(e) ==
  (IF IsErrorEvent(e) THEN <<AdkErrorChunk(e)>> ELSE <<>>)
    \o (IF HasText(e) THEN <<e.text>> ELSE <<>>)

\* Mutant: the text branch is tested before the errorCode branch.
EventChunksTextFirst(e) ==
  IF HasText(e) THEN <<e.text>>
  ELSE IF IsErrorEvent(e) THEN <<AdkErrorChunk(e)>>
  ELSE <<>>

\* The chunks one pass of the loop body writes for event e.
EventChunks(e) ==
  IF IsErrorEvent(e) THEN <<AdkErrorChunk(e)>>
  ELSE IF HasText(e) THEN <<e.text>>
  ELSE <<>>

\* Mutant: the errorCode branch has no `break`.
EventBreaksNotOnError(e) ==
  IF HasText(e) THEN FALSE ELSE e.final

\* Whether the loop body ends in `break` for event e: the errorCode branch,
\* or the final branch, which is the else of the text branch.
EventBreaks(e) ==
  IF IsErrorEvent(e) THEN TRUE
  ELSE IF HasText(e) THEN FALSE
  ELSE e.final

\* runAsync yields an event and the loop body runs on it, its write included.
ModelEvent(r) ==
  /\ pc[r] = "loop"
  /\ EventsLeft
  /\ \E e \in EventKinds :
       /\ consumed' = [consumed EXCEPT ![r] = Append(@, e)]
       /\ written' = [written EXCEPT ![r] = @ \o EventChunks(e)]
       /\ IF EventBreaks(e)
            THEN /\ pc' = [pc EXCEPT ![r] = "closed"]
                 /\ endKind' = [endKind EXCEPT ![r] =
                                  IF IsErrorEvent(e) THEN "adk" ELSE "final"]
            ELSE UNCHANGED <<pc, endKind>>
  /\ UNCHANGED <<clientVars, mockMode, req, how, calls, response, storeVars, abortAt, escaped>>

\* runAsync's sequence ends: the loop is left and the callback returns.
ModelEnds(r) ==
  /\ pc[r] = "loop"
  /\ pc' = [pc EXCEPT ![r] = "closed"]
  /\ endKind' = [endKind EXCEPT ![r] = "end"]
  /\ UNCHANGED <<clientVars, mockMode, req, how, calls, response, storeVars,
                 consumed, written, abortAt, escaped>>

\* Mutant: the catch block writes its marker in the error events' format.
CatchWritesAdkFormat(msg) == <<"\n[ADK ERROR 429] " \o msg \o "\n">>

\* catch (error): await stream.write(`\n[Error: ${err.message}]`)
CatchWrites(msg) == <<TransportErrorChunk(msg)>>

\* runAsync throws while the loop awaits its next event: the catch block runs.
ModelThrows(r) ==
  /\ pc[r] = "loop"
  /\ \E msg \in ThrowMessages :
       written' = [written EXCEPT ![r] = @ \o CatchWrites(msg)]
  /\ pc' = [pc EXCEPT ![r] = "closed"]
  /\ endKind' = [endKind EXCEPT ![r] = "throw"]
  /\ UNCHANGED <<clientVars, mockMode, req, how, calls, response, storeVars,
                 consumed, abortAt, escaped>>

\* The mock branch after a setTimeout: the next canned chunk, and the return
\* after the third.
MockStep(r) ==
  /\ pc[r] = "mock"
  /\ LET n == Len(written[r]) + 1 IN
       /\ written' = [written EXCEPT ![r] = Append(@, MockChunks[n])]
       /\ IF n = Len(MockChunks)
            THEN /\ pc' = [pc EXCEPT ![r] = "closed"]
                 /\ endKind' = [endKind EXCEPT ![r] = "end"]
            ELSE UNCHANGED <<pc, endKind>>
  /\ UNCHANGED <<clientVars, mockMode, req, how, calls, response, storeVars,
                 consumed, abortAt, escaped>>

\* What stream.onAbort's callback does to the callback's control state:
\* console.log('Stream aborted') and nothing else.
OnAbort(r, p) == p

\* The remote caller aborts while the callback is suspended at an await.
Abort(r) ==
  /\ pc[r] \in {"loop", "mock"}
  /\ abortAt[r] = -1
  /\ abortAt' = [abortAt EXCEPT ![r] = Len(written[r])]
  /\ pc' = [pc EXCEPT ![r] = OnAbort(r, pc[r])]
  /\ UNCHANGED <<clientVars, mockMode, req, how, calls, response, storeVars,
                 consumed, written, endKind, escaped>>

\* ------------------------------------------- failures inside the callback

\* err.message of a rejected stream.write.
WriteErrorMessage == "stream closed"

\* A write inside the try block rejects (the error marker of an error event,
\* or a text chunk): the chunk is not written, the loop is left through the
\* catch block, whose own write resolves.
EventWriteRejects(r) ==
  /\ pc[r] = "loop"
  /\ EventsLeft
  /\ \E e \in EventKinds :
       /\ EventChunks(e) # <<>>
       /\ consumed' = [consumed EXCEPT ![r] = Append(@, e)]
  /\ written' = [written EXCEPT ![r] = @ \o CatchWrites(WriteErrorMessage)]
  /\ pc' = [pc EXCEPT ![r] = "closed"]
  /\ endKind' = [endKind EXCEPT ![r] = "throw"]
  /\ UNCHANGED <<clientVars, mockMode, req, how, calls, response, storeVars, abortAt, escaped>>

\* runAsync throws and the catch block's `await stream.write(...)`, which no
\* try encloses, rejects: the rejection leaves the callback.
CatchWriteRejects(r) ==
  /\ pc[r] = "loop"
  /\ pc' = [pc EXCEPT ![r] = "closed"]
  /\ endKind' = [endKind EXCEPT ![r] = "escaped"]
  /\ escaped' = [escaped EXCEPT ![r] = TRUE]
  /\ UNCHANGED <<clientVars, mockMode, req, how, calls, response, storeVars,
                 consumed, written, abortAt>>

\* runAsync rejects with null or undefined: `err.message` in the catch block
\* throws a TypeError before anything is written, and it leaves the callback.
ModelThrowsNullish(r) ==
  /\ pc[r] = "loop"
  /\ pc' = [pc EXCEPT ![r] = "closed"]
  /\ endKind' = [endKind EXCEPT ![r] = "escaped"]
  /\ escaped' = [escaped EXCEPT ![r] = TRUE]
  /\ UNCHANGED <<clientVars, mockMode, req, how, calls, response, storeVars,
                 consumed, written, abortAt>>

\* --------------------------------------------------------- specifications

Step(r) ==
  \/ Receive(r)
  \/ GetSession(r)
  \/ CreateSession(r)
  \/ CreateSessionFails(r)
  \/ ModelEvent(r)
  \/ ModelEnds(r)
  \/ ModelThrows(r)
  \/ MockStep(r)
  \/ Abort(r)

\* Requests are handled concurrently: their steps interleave at the awaits.
\* The model collaborator throws Error objects and stream writes resolve.
Next == \E r \in Reqs : Step(r)

Spec == Init /\ [][Next]_vars

\* A handler is between its arrival and its response's end.
Busy(q) == pc[q] \notin {"idle", "done", "closed"}

\* Requests are handled one after another: a request is received, and steps,
\* only while no other is being handled.
NextSeq == \E r \in Reqs : (\A q \in Reqs \ {r} : ~Busy(q)) /\ Step(r)

SpecSeq == Init /\ [][NextSeq]_vars

\* As Spec, and stream writes may reject and the model collaborator may
\* throw a value that is no Error.
NextFail ==
  \/ Next
  \/ \E r \in Reqs : EventWriteRejects(r)
  \/ \E r \in Reqs : CatchWriteRejects(r)
  \/ \E r \in Reqs : ModelThrowsNullish(r)

SpecFail == Init /\ [][NextFail]_vars

\* ------------------------------------------------------ the browser client

\* What the message box may hold.
MessageInputs == {"", " ", "hi"}

RECURSIVE TrimLeft(_)
TrimLeft(m) ==
  IF m # "" /\ SubSeq(m, 1, 1) = " " THEN TrimLeft(SubSeq(m, 2, Len(m))) ELSE m

RECURSIVE TrimRight(_)
TrimRight(m) ==
  IF m # "" /\ SubSeq(m, Len(m), Len(m)) = " "
    THEN TrimRight(SubSeq(m, 1, Len(m) - 1))
    ELSE m

\* messageEl.value.trim()
Trim(m) == TrimRight(TrimLeft(m))

\* The texts a response body is read as.
BodyChunks == {"x"}

\* The body of a response that is not ok.
ErrorBodies == {"{\"error\":\"Failed to create or retrieve session\"}"}

\* A sendMessage call is suspended at one of its awaits.
InFlight(i) == call[i].at \in {"fetch", "errbody", "read"}

\* The await the call is suspended at can still resolve: its signal was not
\* aborted.
Pending(i) == InFlight(i) /\ ~call[i].cancelled

RECURSIVE ChunksRead(_)
ChunksRead(S) ==
  IF S = {} THEN 0
  ELSE LET i == CHOOSE j \in S : TRUE IN call[i].got + ChunksRead(S \ {i})

\* The response bodies have chunks left to deliver.
ChunksLeft == ChunksRead(Calls) < MaxChunks

\* The next sendMessage call that starts a request.
NextCall == Cardinality({i \in Calls : call[i].at # "idle"}) + 1

\* appendOutput(text)
AppendOutput(text) == output' = Append(output, text)

\* Mutant: the finally block leaves controller as it is.
FinallyControllerKept(i) == controller

\* finally { ...; controller = null }
FinallyController(i) == 0

\* The finally block of call i, which ends the call.
Finally(i, outcome) ==
  /\ sendDisabled' = FALSE
  /\ cancelDisabled' = TRUE
  /\ controller' = FinallyController(i)
  /\ call' = [call EXCEPT ![i].at = "finished", ![i].outcome = outcome]

\* Mutant: the catch block does not tell an abort from other errors.
CatchStatusAlwaysError(name) == "Error"

\* catch (err): setStatus('Aborted') for an AbortError, else setStatus('Error')
CatchStatus(name) == IF name = "AbortError" THEN "Aborted" ELSE "Error"

\* catch (err): the text appended
CatchText(name, msg) ==
  IF name = "AbortError" THEN "\n[Stream aborted]\n"
  ELSE "\n[Error] " \o msg \o "\n"

\* The awaited promise of call i rejects with err: catch, then finally.
Catch(i, name, msg) ==
  /\ AppendOutput(CatchText(name, msg))
  /\ status' = CatchStatus(name)
  /\ Finally(i, name)

\* sendMessage() up to its await on fetch; an empty message returns at once.
SendMessage(m) ==
  IF Trim(m) = ""
    THEN UNCHANGED clientVars
    ELSE LET i == NextCall IN
           /\ i \in Calls
           /\ sendDisabled' = TRUE
           /\ cancelDisabled' = FALSE
           /\ status' = "Streaming..."
           /\ AppendOutput("\n--- New message ---\n")
           /\ controller' = i
           /\ call' = [call EXCEPT ![i].at = "fetch"]

\* sendBtn.addEventListener('click', sendMessage): a disabled button does not
\* fire click.
SendClick ==
  /\ ~sendDisabled
  /\ \E m \in MessageInputs : SendMessage(m)
  /\ UNCHANGED serverVars

\* keydown with Ctrl or Meta and Enter calls sendMessage.
CtrlEnter ==
  /\ \E m \in MessageInputs : SendMessage(m)
  /\ UNCHANGED serverVars

\* await fetch(...) resolves with a response that is ok, or not.
FetchResolves(i) ==
  /\ call[i].at = "fetch"
  /\ Pending(i)
  /\ \E ok \in BOOLEAN :
       call' = [call EXCEPT ![i].ok = ok,
                            ![i].at = IF ok THEN "read" ELSE "errbody"]
  /\ UNCHANGED <<serverVars, controller, sendDisabled, cancelDisabled, status,
                 output>>

\* if (!res.ok): await res.text() resolves, the error is shown, return.
ErrorBodyRead(i) ==
  /\ call[i].at = "errbody"
  /\ Pending(i)
  /\ \E body \in ErrorBodies : AppendOutput("\n[Error] " \o body \o "\n")
  /\ status' = "Error"
  /\ Finally(i, "httpError")
  /\ UNCHANGED serverVars

\* await reader.read() resolves with a chunk, which is appended.
ReadChunk(i) ==
  /\ call[i].at = "read"
  /\ Pending(i)
  /\ ChunksLeft
  /\ \E c \in BodyChunks : AppendOutput(c)
  /\ call' = [call EXCEPT ![i].got = @ + 1]
  /\ UNCHANGED <<serverVars, controller, sendDisabled, cancelDisabled, status>>

\* await reader.read() resolves with done: break, setStatus('Completed').
ReadDone(i) ==
  /\ call[i].at = "read"
  /\ Pending(i)
  /\ status' = "Completed"
  /\ Finally(i, "completed")
  /\ UNCHANGED <<serverVars, output>>

\* The awaited fetch, text() or read() rejects with a network error.
NetworkError(i) ==
  /\ Pending(i)
  /\ Catch(i, "TypeError", "Failed to fetch")
  /\ UNCHANGED serverVars

\* The signal of call i was aborted: the await it is suspended at rejects
\* with an AbortError.
AbortRejects(i) ==
  /\ InFlight(i)
  /\ call[i].cancelled
  /\ Catch(i, "AbortError", "The user aborted a request.")
  /\ UNCHANGED serverVars

\* cancelBtn click: if (controller) controller.abort()
CancelClick ==
  /\ ~cancelDisabled
  /\ call' = IF controller # 0
               THEN [call EXCEPT ![controller].cancelled = TRUE]
               ELSE call
  /\ UNCHANGED <<serverVars, controller, sendDisabled, cancelDisabled, status,
                 output>>

\* clearBtn click: outputEl.textContent = ''
ClearClick ==
  /\ output' = <<>>
  /\ UNCHANGED <<serverVars, controller, sendDisabled, cancelDisabled, status,
                 call>>

NextClient ==
  \/ SendClick
  \/ CtrlEnter
  \/ CancelClick
  \/ ClearClick
  \/ \E i \in Calls : FetchResolves(i)
  \/ \E i \in Calls : ErrorBodyRead(i)
  \/ \E i \in Calls : ReadChunk(i)
  \/ \E i \in Calls : ReadDone(i)
  \/ \E i \in Calls : NetworkError(i)
  \/ \E i \in Calls : AbortRejects(i)

\* The page alone: the user's clicks and keys, and what fetch and the
\* response body do.
SpecClient == Init /\ [][NextClient]_vars

\* ------------------------------------------------- reading the results

Last(q) == q[Len(q)]

HasPrefix(c, p) == Len(c) >= Len(p) /\ SubSeq(c, 1, Len(p)) = p

Contains(c, p) ==
  \E i \in 1..(Len(c) - Len(p) + 1) : SubSeq(c, i, i + Len(p) - 1) = p

\* What a reader of the stream can tell from a chunk alone.
LooksLikeAdkError(c) == HasPrefix(c, "\n[ADK ERROR ")
LooksLikeTransportError(c) == HasPrefix(c, "\n[Error: ")
IsErrorMarker(c) == LooksLikeAdkError(c) \/ LooksLikeTransportError(c)

MarkerCount(w) == Cardinality({i \in 1..Len(w) : IsErrorMarker(w[i])})

NonMock(r) == how[r] \in {"existing", "created"}

\* --------------------------------------------------------------- C1

\* C1: with requests handled one after another (SpecSeq), the first request
\* that gets a session for a triple creates it and every later request on the
\* triple uses the existing one: createSession never runs on a triple that
\* has a session, a triple is created at most once, and the session in the
\* store holds every turn ever started on it (it is never replaced by a
\* fresh empty one).
C1_SequentialGetOrCreate ==
  /\ overwrites = 0
  /\ \A t \in Triples :
       /\ creates[t] <= 1
       /\ sessions[t].exists => sessions[t].turns = turnLog[t]
       /\ \A i \in 1..Len(turnLog[t]) :
            how[turnLog[t][i]] = (IF i = 1 THEN "created" ELSE "existing")
  /\ \A r \in Reqs : NonMock(r) => sessions[TripleOf(r)].exists

\* Two requests on one triple have both run their turn, the second on the
\* session the first created.
C1_Witness ==
  \E t \in Triples :
    /\ Len(turnLog[t]) = 2
    /\ how[turnLog[t][2]] = "existing"
    /\ \A r \in Reqs : pc[r] = "closed"

\* --------------------------------------------------------------- C2

\* C2: with requests handled concurrently (Spec), exactly one session is
\* created per triple: a triple is created at most once, createSession never
\* runs after another request created the session, and no turn is lost from
\* the stored session.
C2_ConcurrentSingleCreate ==
  /\ overwrites = 0
  /\ \A t \in Triples :
       /\ creates[t] <= 1
       /\ sessions[t].exists => sessions[t].turns = turnLog[t]

\* --------------------------------------------------------------- C3

C4_AbortStopsTurn ==
  [][\A r \in Reqs :
       (NonMock(r) /\ abortAt[r] >= 1) =>
         /\ written'[r] = written[r]
         /\ consumed'[r] = consumed[r]
         /\ endKind'[r] # "final"]_vars

\* --------------------------------------------------------------- C5

\* C5: a request whose message is missing or empty is answered 400 and has
\* touched nothing: no getSession, createSession, runAsync or streamText
\* call, no turn in any session, no chunk.
C5_InvalidRequestTouchesNothing ==
  \A r \in Reqs :
    (pc[r] # "idle" /\ ~Truthy(req[r].message)) =>
      /\ response[r] = 400
      /\ pc[r] = "done"
      /\ calls[r] = {}
      /\ how[r] = "none"
      /\ written[r] = <<>> /\ consumed[r] = <<>>
      /\ \A t \in Triples :
           /\ \A i \in 1..Len(turnLog[t]) : turnLog[t][i] # r
           /\ sessions[t].exists =>
                \A i \in 1..Len(sessions[t].turns) : sessions[t].turns[i] # r

\* An empty message sent with a userId of its own was rejected.
C5_Witness ==
  \E r \in Reqs :
    /\ response[r] = 400
    /\ req[r].message = ""
    /\ req[r].userId = "alice"

\* --------------------------------------------------------------- C6

\* C6: when an error event is consumed after k >= 0 chunks were written, the
\* k chunks stay as they were, exactly one chunk is written after them, it
\* encodes the event's error code and message, the stream ends there, and an
\* ended stream consumes and writes nothing more.
C6_ErrorEventEndsStream ==
  [][\A r \in Reqs :
       /\ (Len(consumed'[r]) = Len(consumed[r]) + 1
             /\ IsErrorEvent(Last(consumed'[r]))) =>
            LET e == Last(consumed'[r])
                w == written'[r]
            IN /\ Len(w) = Len(written[r]) + 1
               /\ SubSeq(w, 1, Len(written[r])) = written[r]
               /\ LooksLikeAdkError(Last(w))
               /\ Contains(Last(w), e.errorCode)
               /\ Contains(Last(w), OrElse(e.errorMessage, "Unknown ADK error"))
               /\ pc'[r] = "closed"
       /\ pc[r] = "closed" =>
            (written'[r] = written[r] /\ consumed'[r] = consumed[r])]_vars

\* An error event ended a stream after one text chunk.
C6_Witness ==
  \E r \in Reqs :
    /\ pc[r] = "closed"
    /\ Len(consumed[r]) = 2
    /\ IsErrorEvent(consumed[r][2])
    /\ Len(written[r]) = 2
    /\ written[r][1] = "a"

\* --------------------------------------------------------------- C7

\* C7: a stream ended by an error event and a stream ended by a throw of the
\* model collaborator both end with a marker, the marker of each kind is
\* recognisable as that kind and not as the other, and no marker of one kind
\* equals a marker of the other.
C7_MarkersDistinguishable ==
  /\ \A r \in Reqs :
       /\ endKind[r] = "adk" =>
            /\ written[r] # <<>>
            /\ LooksLikeAdkError(Last(written[r]))
            /\ ~LooksLikeTransportError(Last(written[r]))
       /\ endKind[r] = "throw" =>
            /\ written[r] # <<>>
            /\ LooksLikeTransportError(Last(written[r]))
            /\ ~LooksLikeAdkError(Last(written[r]))
  /\ \A r, q \in Reqs :
       (endKind[r] = "adk" /\ endKind[q] = "throw") =>
         Last(written[r]) # Last(written[q])

\* One stream ended by an error event whose message is the message of the
\* error that ended another stream by a throw.
C7_Witness ==
  \E r, q \in Reqs :
    /\ endKind[r] = "adk"
    /\ endKind[q] = "throw"
    /\ Last(consumed[r]).errorMessage = "quota"
    /\ Contains(Last(written[q]), "quota")

\* --------------------------------------------------------------- C8

\* C8: no exception leaves the streamText callback, and a turn that failed
\* (a throw of the model collaborator, a rejected write) ends with a terminal
\* error chunk. Checked under SpecFail.
C8_NothingEscapes ==
  \A r \in Reqs :
    /\ ~escaped[r]
    /\ (pc[r] = "closed" /\ endKind[r] \in {"throw", "escaped"}) =>
         (written[r] # <<>> /\ IsErrorMarker(Last(written[r])))

\* --------------------------------------------------------------- C9

\* An event that ends the turn, as the claim has it.
Terminating(e) == e.final \/ IsErrorEvent(e)

FirstTerminating(c) ==
  IF \E i \in 1..Len(c) : Terminating(c[i])
    THEN CHOOSE i \in 1..Len(c) :
           Terminating(c[i]) /\ \A j \in 1..(i - 1) : ~Terminating(c[j])
    ELSE Len(c)

IsTextEvent(e) == HasText(e) /\ ~IsErrorEvent(e)

\* The texts of the text events up to the first terminating event.
ExpectedTexts(c) ==
  LET sel == SelectSeq(SubSeq(c, 1, FirstTerminating(c)), IsTextEvent)
  IN [i \in 1..Len(sel) |-> sel[i].text]

NotErrorMarker(c) == ~IsErrorMarker(c)

\* C9: the chunks written for a turn of the runner, error markers aside, are
\* exactly the texts of the text events up to the first terminating event
\* (final or error), in arrival order.
C9_TextsForwardedInOrder ==
  \A r \in Reqs :
    NonMock(r) =>
      SelectSeq(written[r], NotErrorMarker) = ExpectedTexts(consumed[r])

\* -------------------------------------------------------------- C10

\* C10: once a final event has been consumed, with or without text, the
\* stream has ended and no further event is consumed; a sequence that ends
\* without a final event ends the stream without a marker.
C10_FinalEndsStream ==
  \A r \in Reqs :
    /\ (\E i \in 1..Len(consumed[r]) : consumed[r][i].final) =>
         /\ pc[r] = "closed"
         /\ Last(consumed[r]).final
         /\ \A i \in 1..(Len(consumed[r]) - 1) : ~consumed[r][i].final
    /\ (pc[r] = "closed" /\ endKind[r] = "end") => MarkerCount(written[r]) = 0

\* -------------------------------------------------------------- C11

\* The cap on tool dispatches per turn that the claim speaks of.
ToolLoopCap == 2

\* A tool call (or tool result): no error code, no text in parts[0], not final.
IsToolEvent(e) == ~IsErrorEvent(e) /\ ~HasText(e) /\ ~e.final

ToolDispatches(r) ==
  Cardinality({i \in 1..Len(consumed[r]) : IsToolEvent(consumed[r][i])})

\* C11: a turn never sees more than ToolLoopCap tool dispatches, and a turn
\* that has seen ToolLoopCap of them has ended with a ToolLoopExceeded error
\* chunk and not as Final.
C11_ToolLoopCapped ==
  \A r \in Reqs :
    /\ ToolDispatches(r) <= ToolLoopCap
    /\ ToolDispatches(r) = ToolLoopCap =>
         /\ pc[r] = "closed"
         /\ endKind[r] # "final"
         /\ written[r] # <<>>
         /\ Contains(Last(written[r]), "ToolLoopExceeded")

\* -------------------------------------------------------------- C12

ReportedMessage(e) ==
  IF e.errorMessage \in {Missing, ""} THEN "Unknown ADK error"
  ELSE e.errorMessage

Row(r) ==
  <<pc[r], req[r], how[r], calls[r], response[r], consumed[r], written[r],
    abortAt[r], endKind[r], escaped[r]>>

StoreAt(t) == <<sessions[t], turnLog[t], creates[t]>>

\* C13: every step is the step of one request; it leaves every other
\* request's handler and stream as they were, and leaves the session of every
\* triple other than the one the request names as it was.
C13_TriplesIndependent ==
  [][\E r \in Reqs :
       /\ \A q \in Reqs \ {r} : Row(q)' = Row(q)
       /\ \A t \in Triples \ {Triple(req'[r].userId, req'[r].sessionId)} :
            StoreAt(t)' = StoreAt(t)]_vars

\* Two requests on different triples have both run a turn and written chunks.
C13_Witness ==
  \E r, q \in Reqs :
    /\ req[r].userId = "alice" /\ req[q].userId = "default-user"
    /\ pc[r] = "closed" /\ pc[q] = "closed"
    /\ written[r] # <<>> /\ written[q] # <<>>
    /\ \A t \in Triples : Len(turnLog[t]) = 1

\* -------------------------------------------------------------- C14

\* C14: a request whose createSession call failed is answered 500 and that is
\* all: streamText and runAsync are not called, no event is consumed, no
\* chunk is written, no turn is recorded.
C14_CreateFailureAnswers500 ==
  \A r \in Reqs :
    ("createSession" \in calls[r] /\ how[r] # "created") =>
      /\ response[r] = 500
      /\ pc[r] = "done"
      /\ calls[r] = {"getSession", "createSession"}
      /\ consumed[r] = <<>> /\ written[r] = <<>>
      /\ endKind[r] = "none"
      /\ \A t \in Triples :
           \A i \in 1..Len(turnLog[t]) : turnLog[t][i] # r

\* A createSession call failed while the other request has a stream.
C14_Witness ==
  \E r, q \in Reqs :
    /\ response[r] = 500
    /\ "createSession" \in calls[r]
    /\ response[q] = 200

\* -------------------------------------------------------------- C15

\* C15: a consumed event that carries an error code and text is the last one
\* consumed, it ended the stream, the last chunk is its error marker, and its
\* text was not written.
C15_ErrorBeforeText ==
  \A r \in Reqs :
    \A i \in 1..Len(consumed[r]) :
      (IsErrorEvent(consumed[r][i]) /\ HasText(consumed[r][i])) =>
        /\ i = Len(consumed[r])
        /\ pc[r] = "closed"
        /\ written[r] # <<>>
        /\ LooksLikeAdkError(Last(written[r]))
        /\ Contains(Last(written[r]), consumed[r][i].errorCode)
        /\ \A j \in 1..Len(written[r]) : written[r][j] # consumed[r][i].text
        /\ MarkerCount(written[r]) = 1

\* An event with error code and text ended a stream after a text chunk.
C15_Witness ==
  \E r \in Reqs :
    /\ Len(consumed[r]) = 2
    /\ IsErrorEvent(consumed[r][2]) /\ HasText(consumed[r][2])
    /\ Len(written[r]) = 2

\* -------------------------------------------------------------- C16

\* C16: in mock mode a request with a message calls nothing but streamText,
\* consumes no event, no session exists, the chunks written are at every
\* moment the first chunks of the three canned ones, and all three, in their
\* order, once the stream has ended, which it does cleanly.
C16_MockStream ==
  mockMode =>
    /\ \A t \in Triples : ~sessions[t].exists /\ creates[t] = 0
    /\ \A r \in Reqs :
         (pc[r] # "idle" /\ Truthy(req[r].message)) =>
           LET fixed ==
                 << "Hello! This is a mock agent response.\n",
                    "I can simulate analysis, budgeting, and reports for testing.\n",
                    "Try: 'Analyze transactions: ...' or 'Set a budget of $100 for dining.'\n" >>
           IN /\ calls[r] = {"streamText"}
              /\ consumed[r] = <<>>
              /\ response[r] = 200
              /\ Len(written[r]) \in 1..3
              /\ written[r] = SubSeq(fixed, 1, Len(written[r]))
              /\ pc[r] = "closed" <=> written[r] = fixed
              /\ pc[r] = "closed" => endKind[r] = "end"

\* Two mock streams on different users have ended.
C16_Witness ==
  /\ mockMode
  /\ \E r, q \in Reqs :
       /\ req[r].userId = "alice" /\ req[q].userId = "default-user"
       /\ pc[r] = "closed" /\ pc[q] = "closed"
       /\ Len(written[r]) = 3 /\ Len(written[q]) = 3

\* C17: in the browser client at most one chat request is in flight at any
\* time, and whenever a request is in flight the shared controller refers to
\* it, so that a Cancel click aborts it.
C17_OneRequestUnderController ==
  /\ Cardinality({i \in Calls : InFlight(i)}) <= 1
  /\ \A i \in Calls : InFlight(i) => controller = i

\* A sendMessage call that started a request ends in this step.
Finishes(i) == InFlight(i) /\ ~InFlight(i)'

\* C18: whenever a sendMessage call that started a request finishes, by any
\* path, the Send button is enabled, the Cancel button is disabled, controller
\* is null and the status is no longer 'Streaming...'; and whenever no request
\* is in flight the page is in that state, so it is never left showing
\* 'Streaming...' with nothing to wait for.
C18_FinishResetsControls ==
  /\ [][\A i \in Calls :
          Finishes(i) =>
            /\ ~sendDisabled'
            /\ cancelDisabled'
            /\ controller' = 0
            /\ status' \in {"Completed", "Error", "Aborted"}
            /\ call'[i].outcome \in
                 {"completed", "httpError", "AbortError", "TypeError"}]_vars
  /\ []((\A i \in Calls : ~InFlight(i)) =>
          /\ ~sendDisabled
          /\ cancelDisabled
          /\ controller = 0
          /\ status # "Streaming...")

\* Two calls have finished, one by a response that was not ok and one by a
\* network error, and the page is ready for the next message.
C18_Witness ==
  /\ \E i, j \in Calls :
       /\ call[i].at = "finished" /\ call[i].outcome = "httpError"
       /\ call[j].at = "finished" /\ call[j].outcome = "TypeError"
  /\ ~sendDisabled /\ cancelDisabled /\ controller = 0
  /\ status = "Error"

\* C19: once a Cancel click has aborted a request in flight, the call that
\* made it appends no chunk any more; what it does next is to end, appending
\* '[Stream aborted]' once and setting the status to 'Aborted'; after that it
\* does nothing. The status is 'Completed' only when a call whose response
\* was ok, and which was not cancelled, read its stream to the end.
C19_CancelledEndsAborted ==
  /\ [][\A i \in Calls :
          /\ (call[i].cancelled /\ InFlight(i)) =>
               /\ call'[i].got = call[i].got
               /\ call'[i] # call[i] =>
                    /\ Finishes(i)
                    /\ call'[i].outcome = "AbortError"
                    /\ output' = Append(output, "\n[Stream aborted]\n")
                    /\ status' = "Aborted"
          /\ call[i].at = "finished" => call'[i] = call[i]
          /\ (Finishes(i) /\ status' = "Completed") =>
               /\ call[i].at = "read" /\ call[i].ok /\ ~call[i].cancelled
               /\ call'[i].outcome = "completed"]_vars
  /\ [](status = "Completed" =>
          \E i \in Calls :
            /\ call[i].outcome = "completed"
            /\ call[i].ok
            /\ ~call[i].cancelled)

\* A request was cancelled after a chunk of it had been appended; its call
\* has ended, the output ends with '[Stream aborted]' and the status is
\* 'Aborted'.
C19_Witness ==
  \E i \in Calls :
    /\ call[i].cancelled
    /\ call[i].got >= 1
    /\ call[i].at = "finished"
    /\ call[i].outcome = "AbortError"
    /\ status = "Aborted"
    /\ output # <<>>
    /\ Last(output) = "\n[Stream aborted]\n"

====
